---- MODULE Spec2Model ----
(***************************************************************************)
(* A model of the JNI binding layer jni.c of the whisper Android library:  *)
(* the stream adapter callbacks handed to the engine's model loader, the   *)
(* context lifecycle entry points and the transcribe entry point.          *)
(*                                                                         *)
(* The engine (whisper.cpp), the host stream (java.io.InputStream) and the *)
(* asset manager are the environment: every value they return is drawn     *)
(* nondeterministically from the values their interface allows.            *)
(*                                                                         *)
(* Integer widths are scaled: a jint has IntBits bits (32 in the build)    *)
(* and a size_t has SizeBits = 2 * IntBits bits (64 in the build), so the  *)
(* narrowing and sign-extending conversions of the code are computed.      *)
(***************************************************************************)
EXTENDS Integers, Sequences, FiniteSets, TLC

\* ------------------------------------------------------------------ bounds
\* Width of a jint / int in bits (scaled from 32).
IntBits == 3
\* Longest host stream, in bytes.
MaxLen == 3
\* Number of loader callbacks followed in one run of the stream adapter.
MaxCalls == 2

\* ------------------------------------------------------------ integer types
RECURSIVE Pow2(_)
Pow2(n) == IF n = 0 THEN 1 ELSE 2 * Pow2(n - 1)

\* size_t is wider than int (LP64: 64 bits against 32), here by two bits.
SizeBits == IntBits + 2

IntMod == Pow2(IntBits)
JIntMin == -Pow2(IntBits - 1)
JIntMax == Pow2(IntBits - 1) - 1
JInt == JIntMin..JIntMax
SizeMod == Pow2(SizeBits)
SizeT == 0..(SizeMod - 1)

\* Conversion of an integer value to int / jint: the low IntBits bits, read
\* as two's complement.
ToInt(x) ==
  LET m == x % IntMod
  IN  IF m > JIntMax THEN m - IntMod ELSE m

\* Conversion of an integer value to size_t: sign extension, modulo 2^SizeBits.
ToSize(x) == x % SizeMod

\* static inline int min(int a, int b): callers' arguments are converted to int.
min(a, b) == IF ToInt(a) < ToInt(b) THEN ToInt(a) ELSE ToInt(b)

\* The content of a host stream of n bytes: every byte is non-zero and tells
\* its position, so a byte of the stream is told from a byte of a fresh array.
StreamOfLen(n) == [i \in 1..n |-> i]

VARIABLES
  stream,     \* the host InputStream: [data, pos]
  asset,      \* the packaged asset behind the asset adapter: [remaining, open]
  is_offset,  \* input_stream_context.offset
  last,       \* what the most recent loader callback did
  nCalls,     \* loader callbacks made so far
  crashed,    \* the process has aborted
  pc,         \* where each host thread is: idle, inside an entry point, returned
  call,       \* the entry point a thread is in: its arguments, locals and outcome
  held,       \* the host buffers a thread's call has acquired and not released
  misuse,     \* a buffer was read or released while not held, or acquired twice
  nAlloc,     \* engine contexts created so far; their handles are 1..nAlloc
  returned,   \* the handles the initializers have returned to the host
  engineFrees,  \* whisper_free calls issued, per handle
  serialised  \* the host serialises its calls on a handle and frees it last

streamVars == <<stream, asset, is_offset, last, nCalls>>
hostVars == <<pc, call, held, misuse, nAlloc, returned, engineFrees, serialised>>
vars == <<stream, asset, is_offset, last, nCalls, crashed, pc, call, held, misuse,
          nAlloc, returned, engineFrees, serialised>>

\* ------------------------------------------------- environment: host stream
\* InputStream#available(): an estimate the host chooses; nothing in the layer
\* restricts it, so every jint is a possible report.
Available == JInt

\* InputStream#read(byte[], 0, len) on a stream at pos: 0 for len = 0, -1 at
\* the end of the stream, otherwise between 1 and len bytes.
HostRead(len, data, pos) ==
  IF len = 0 THEN {0}
  ELSE IF pos >= Len(data) THEN {-1}
  ELSE 1..(IF len < Len(data) - pos THEN len ELSE Len(data) - pos)

\* The new (zero-filled) byte[len] after the host read stored n bytes at 0.
ByteArrayAfterRead(len, n, data, pos) ==
  [i \in 1..len |-> IF i <= n THEN data[pos + i] ELSE 0]

\* AAsset_read(asset, buf, count): bytes read, 0 at the end, negative on error.
AssetReadResults(count, remaining) ==
  {-1} \cup 0..(IF count < remaining THEN count ELSE remaining)

\* ----------------------------------------------------------- stream adapter
\* jint size_to_copy = (jint)min(read_size, (size_t)avail_size);
SizeToCopy(read_size, avail_size) == ToInt(min(read_size, ToSize(avail_size)))

\* if (size_to_copy != read_size || size_to_copy != n_read): size_to_copy is
\* converted to size_t for the first comparison.
InsufficientRead(read_size, size_to_copy, n_read) ==
  ToSize(size_to_copy) # read_size \/ size_to_copy # n_read

\* return size_to_copy; (jint converted to size_t)
inputStreamReadRet(size_to_copy, n_read) == ToSize(size_to_copy)

\* is->offset += size_to_copy;
OffsetAfterRead(offset, size_to_copy) == ToSize(offset + ToSize(size_to_copy))

\* A variant of inputStreamEofRet: end of data only on a report of exactly 0.
inputStreamEofRet_zero(result) == result = 0

\* return result <= 0;
inputStreamEofRet(result) == result <= 0

\* return AAsset_getRemainingLength64(asset) <= 0;
asset_is_eofRet(remaining) == remaining <= 0

\* The record kept of a loader callback.
NoCall ==
  [op |-> "none", read_size |-> 0, avail |-> 0, asked |-> 0, n_read |-> 0,
   ret |-> 0, eof |-> FALSE, returned |-> FALSE, logged |-> FALSE,
   out |-> <<>>, pos0 |-> 0]

\* size_t inputStreamRead(void *ctx, void *output, size_t read_size)
\* A negative size_to_copy makes NewByteArray fail and the calls after it
\* work on a null array: the process aborts inside the callback.
inputStreamRead ==
  /\ ~crashed
  /\ last.op = "none"
  /\ nCalls < MaxCalls
  /\ nCalls' = nCalls + 1
  /\ \E read_size \in SizeT, avail_size \in Available :
       LET size_to_copy == SizeToCopy(read_size, avail_size)
           rec == [NoCall EXCEPT !.op = "read", !.read_size = read_size,
                                  !.avail = avail_size, !.asked = size_to_copy,
                                  !.pos0 = stream.pos]
       IN  IF size_to_copy < 0
           THEN /\ crashed' = TRUE
                /\ last' = rec
                /\ UNCHANGED <<stream, is_offset>>
           ELSE \E n_read \in HostRead(size_to_copy, stream.data, stream.pos) :
                  /\ stream' = [stream EXCEPT !.pos = @ + (IF n_read > 0 THEN n_read ELSE 0)]
                  /\ is_offset' = OffsetAfterRead(is_offset, size_to_copy)
                  /\ last' = [rec EXCEPT
                                !.n_read = n_read,
                                !.logged = InsufficientRead(read_size, size_to_copy, n_read),
                                !.out = ByteArrayAfterRead(size_to_copy, n_read,
                                                           stream.data, stream.pos),
                                !.ret = inputStreamReadRet(size_to_copy, n_read),
                                !.returned = TRUE]
                  /\ UNCHANGED crashed
  /\ UNCHANGED <<asset, hostVars>>

\* bool inputStreamEof(void *ctx)
inputStreamEof ==
  /\ ~crashed
  /\ last.op = "none"
  /\ nCalls < MaxCalls
  /\ nCalls' = nCalls + 1
  /\ \E result \in Available :
       last' = [NoCall EXCEPT !.op = "eof", !.avail = result, !.pos0 = stream.pos,
                              !.eof = inputStreamEofRet(result), !.returned = TRUE]
  /\ UNCHANGED <<stream, asset, is_offset, crashed, hostVars>>

\* void inputStreamClose(void *ctx): a no-op.
inputStreamClose ==
  /\ ~crashed
  /\ last.op = "none"
  /\ nCalls < MaxCalls
  /\ nCalls' = nCalls + 1
  /\ last' = [NoCall EXCEPT !.op = "close", !.pos0 = stream.pos, !.returned = TRUE]
  /\ UNCHANGED <<stream, asset, is_offset, crashed, hostVars>>

\* static size_t asset_read(void *ctx, void *output, size_t read_size)
asset_read ==
  /\ ~crashed
  /\ last.op = "none"
  /\ asset.open
  /\ nCalls < MaxCalls
  /\ nCalls' = nCalls + 1
  /\ \E read_size \in SizeT :
       \E n \in AssetReadResults(read_size, asset.remaining) :
         /\ asset' = [asset EXCEPT !.remaining = @ - (IF n > 0 THEN n ELSE 0)]
         /\ last' = [NoCall EXCEPT !.op = "asset_read", !.read_size = read_size,
                                !.avail = asset.remaining, !.n_read = n,
                                !.ret = ToSize(n), !.returned = TRUE]
  /\ UNCHANGED <<stream, is_offset, crashed, hostVars>>

\* static bool asset_is_eof(void *ctx)
asset_is_eof ==
  /\ ~crashed
  /\ last.op = "none"
  /\ asset.open
  /\ nCalls < MaxCalls
  /\ nCalls' = nCalls + 1
  /\ last' = [NoCall EXCEPT !.op = "asset_eof", !.avail = asset.remaining,
                            !.eof = asset_is_eofRet(asset.remaining), !.returned = TRUE]
  /\ UNCHANGED <<stream, asset, is_offset, crashed, hostVars>>

\* static void asset_close(void *ctx)
asset_close ==
  /\ ~crashed
  /\ last.op = "none"
  /\ asset.open
  /\ nCalls < MaxCalls
  /\ nCalls' = nCalls + 1
  /\ asset' = [asset EXCEPT !.open = FALSE]
  /\ last' = [NoCall EXCEPT !.op = "asset_close", !.returned = TRUE]
  /\ UNCHANGED <<stream, is_offset, crashed, hostVars>>

\* The engine's loader takes the value a callback returned and goes on.
LoaderContinue ==
  /\ ~crashed
  /\ last.op # "none"
  /\ last' = NoCall
  /\ UNCHANGED <<stream, asset, is_offset, nCalls, crashed, hostVars>>


\* ===================================================== the JNI entry points
\* ----------------------------------------------------------------- bounds
\* Engine contexts the engine can create; handle 0 is the null handle.
MaxCtx == 2
\* whisper_free calls followed in one run (2: a handle can be freed twice).
MaxFrees == 2

\* The host threads calling into the library.
Threads == {1, 2}
Handles == 0..MaxCtx

\* Loader callbacks followed inside one initializer call.
MaxLoaderCalls == 1

\* Arguments of fullTranscribe: <<language, thread count, translate flag>>.
TranscribeArgs ==
  {<<"en", 1, FALSE>>, <<"ja", 1, TRUE>>, <<"en", 4, TRUE>>, <<"ja", 4, FALSE>>}

\* ----------------------------------------------------- environment: engine
\* whisper_full_default_params(WHISPER_SAMPLING_GREEDY): the engine's defaults
\* are not this layer's; two possible default sets stand for them.
GreedyDefaults ==
  {[strategy |-> "greedy", translate |-> t, print_realtime |-> p, print_progress |-> ~p,
    print_timestamps |-> ~p, print_special |-> p, language |-> "auto", n_threads |-> 2,
    offset_ms |-> o, no_context |-> ~p, single_segment |-> p] :
     t \in {FALSE}, p \in BOOLEAN, o \in {0}}

\* What whisper_full returns: 0 on success, non-zero on failure.
FullResults == {-1, 0, 1}

\* What AAssetManager_open returns: 0 is the null asset.
AssetOpenResults == {0, 1}

\* -------------------------------------------------- host buffer bookkeeping
\* The effect of a sequence of buffer operations <<kind, buffer>> on the set of
\* buffers a call holds; misuse records a read or release of a buffer that is
\* not held, and an acquisition over one that still is.
RECURSIVE RunOps(_, _)
RunOps(st, ops) ==
  IF ops = <<>> THEN st
  ELSE LET kind == Head(ops)[1]
           b == Head(ops)[2]
           nxt == CASE kind = "acquire" ->
                         [held |-> st.held \cup {b}, misuse |-> st.misuse \/ b \in st.held]
                    [] kind = "release" ->
                         [held |-> st.held \ {b}, misuse |-> st.misuse \/ b \notin st.held]
                    [] OTHER ->
                         [held |-> st.held, misuse |-> st.misuse \/ b \notin st.held]
       IN  RunOps(nxt, Tail(ops))

\* A variant of inputStreamReadOps that leaves the array elements pinned.
inputStreamReadOps_noRelease ==
  << <<"acquire", "byte_array">>, <<"use", "byte_array">>,
     <<"acquire", "byte_array_elements">>, <<"use", "byte_array_elements">>,
     <<"release", "byte_array">> >>

\* inputStreamRead: NewByteArray, read into it, GetByteArrayElements, memcpy,
\* ReleaseByteArrayElements, DeleteLocalRef.
inputStreamReadOps ==
  << <<"acquire", "byte_array">>, <<"use", "byte_array">>,
     <<"acquire", "byte_array_elements">>, <<"use", "byte_array_elements">>,
     <<"release", "byte_array_elements">>, <<"release", "byte_array">> >>

\* initContextFromAsset: GetStringUTFChars; the path is used by the log lines
\* and the open; ReleaseStringUTFChars.
assetGetOps == << <<"acquire", "asset_path_chars">> >>
assetOpenOps == << <<"use", "asset_path_chars">> >>
assetReleaseOps == << <<"release", "asset_path_chars">> >>

\* initContext: GetStringUTFChars, whisper_init_from_file_with_params,
\* ReleaseStringUTFChars.
initContextGetOps == << <<"acquire", "model_path_chars">> >>
initContextLoadOps == << <<"use", "model_path_chars">> >>
initContextReleaseOps == << <<"release", "model_path_chars">> >>

\* fullTranscribe up to the inference run: GetFloatArrayElements,
\* GetStringUTFChars, LOGI of the language.
fullTranscribeEnterOps ==
  << <<"acquire", "audio_data_arr">>, <<"acquire", "lang_cstr">>, <<"use", "lang_cstr">> >>
\* whisper_full reads params.language and the samples.
whisperFullOps == << <<"use", "lang_cstr">>, <<"use", "audio_data_arr">> >>

\* A variant of fullTranscribeReleaseOps that returns early on failure.
fullTranscribeReleaseOps_successOnly(rc) ==
  IF rc # 0 THEN <<>>
  ELSE << <<"release", "lang_cstr">>, <<"release", "audio_data_arr">> >>

\* fullTranscribe after the inference run: ReleaseStringUTFChars,
\* ReleaseFloatArrayElements, whatever whisper_full returned.
fullTranscribeReleaseOps(rc) ==
  << <<"release", "lang_cstr">>, <<"release", "audio_data_arr">> >>

\* ------------------------------------------------------------ entry points
\* A variant of AssetOpenFailed without the null check.
AssetOpenFailed_unchecked(a) == FALSE

\* if (!asset)
AssetOpenFailed(a) == a = 0

\* A variant of freeContextFrees that skips the null handle.
freeContextFrees_nonNull(context_ptr) == IF context_ptr = 0 THEN {} ELSE {context_ptr}

\* freeContext: whisper_free(context) on the handle given, whatever it is.
freeContextFrees(context_ptr) == {context_ptr}

\* A variant of fullTranscribeContext that runs on the context created last.
fullTranscribeContext_global(context_ptr) == nAlloc

\* struct whisper_context *context = (struct whisper_context *) context_ptr;
fullTranscribeContext(context_ptr) == context_ptr

\* A variant of FullParams that leaves no_context as the engine defaults it.
FullParams_defaultContext(d, lang, num_threads, translate) ==
  [d EXCEPT !.translate = translate, !.print_realtime = FALSE,
            !.print_progress = FALSE, !.print_timestamps = FALSE,
            !.print_special = FALSE, !.language = lang, !.n_threads = num_threads,
            !.offset_ms = 0, !.single_segment = FALSE]

\* The parameters fullTranscribe builds over the engine defaults d.
FullParams(d, lang, num_threads, translate) ==
  [d EXCEPT !.translate = translate, !.print_realtime = FALSE,
            !.print_progress = FALSE, !.print_timestamps = FALSE,
            !.print_special = FALSE, !.language = lang, !.n_threads = num_threads,
            !.offset_ms = 0, !.no_context = TRUE, !.single_segment = FALSE]

NoParams == [strategy |-> "none"]

\* The record of a thread's call; NoEntry while it is idle.
NoEntry ==
  [fn |-> "none", h |-> 0, ctx |-> 0, lang |-> "", n_threads |-> 0, translate |-> FALSE,
   params |-> NoParams, rc |-> 0, logs |-> {}, timings |-> FALSE, opened |-> FALSE,
   loader |-> FALSE, ncb |-> 0, ret |-> 0, exc |-> FALSE, freedInFull |-> FALSE]

RECURSIVE SumFrees(_)
SumFrees(h) == IF h < 0 THEN 0 ELSE engineFrees[h] + SumFrees(h - 1)
\* whisper_free calls issued so far.
TotalFrees == SumFrees(MaxCtx)

\* A context the engine has created and nobody has freed.
ValidCtx(c) == c \in 1..nAlloc /\ engineFrees[c] = 0

\* Thread u is inside a call that was given handle h.
InCallOn(u, h) == pc[u] \notin {"idle", "ret"} /\ call[u].h = h

\* The handles the host passes from thread t. A serialising host passes a handle
\* an initializer returned, not yet freed, and in no call of another thread; any
\* other host passes null or any handle it was ever given.
UsableHandles(t) ==
  IF serialised
  THEN {h \in returned : engineFrees[h] = 0 /\ \A u \in Threads \ {t} : ~InCallOn(u, h)}
  ELSE {0} \cup returned

\* Thread t is inside whisper_full on engine context c.
InFull(t, c) == pc[t] = "in_full" /\ call[t].ctx = c

\* The engine's result for a load: a new context, or null.
LoadResults == IF nAlloc < MaxCtx THEN {0, nAlloc + 1} ELSE {0}

\* The initializer of thread t returns handle c to the host.
ReturnHandle(t, c) ==
  /\ nAlloc' = (IF c = 0 THEN nAlloc ELSE c)
  /\ returned' = (IF c = 0 THEN returned ELSE returned \cup {c})
  /\ pc' = [pc EXCEPT ![t] = "ret"]

Buffers(t) == [held |-> held[t], misuse |-> misuse]

\* The process aborts inside the call rec of thread t: its threads, the other
\* calls and the buffers they hold are gone.
Abort(t, rec) ==
  /\ crashed' = TRUE
  /\ pc' = [u \in Threads |-> "aborted"]
  /\ call' = [u \in Threads |-> IF u = t THEN rec ELSE NoEntry]
  /\ held' = [u \in Threads |-> {}]

SetBuffers(t, st) ==
  /\ held' = [held EXCEPT ![t] = st.held]
  /\ misuse' = st.misuse

\* initContextFromInputStream, up to the call of whisper_init(&loader).
initContextFromInputStreamEnter(t) ==
  /\ ~crashed
  /\ pc[t] = "idle"
  /\ pc' = [pc EXCEPT ![t] = "is_load"]
  /\ call' = [call EXCEPT ![t] = [NoEntry EXCEPT !.fn = "initContextFromInputStream",
                                                 !.loader = TRUE]]
  /\ UNCHANGED <<streamVars, crashed, held, misuse, nAlloc, returned, engineFrees,
                 serialised>>

\* The loader calls inputStreamRead: the buffer operations of one read, or the
\* abort on a negative size_to_copy.
LoaderReadCallback(t) ==
  /\ ~crashed
  /\ pc[t] = "is_load"
  /\ call[t].ncb < MaxLoaderCalls
  /\ \E read_size \in {0, 1, IntMod - 1, IntMod, SizeMod - 1}, avail_size \in {-1, 0, 1} :
       IF SizeToCopy(read_size, avail_size) < 0
       THEN /\ Abort(t, NoEntry)
            /\ UNCHANGED misuse
       ELSE /\ SetBuffers(t, RunOps(Buffers(t), inputStreamReadOps))
            /\ call' = [call EXCEPT ![t].ncb = @ + 1]
            /\ UNCHANGED <<crashed, pc>>
  /\ UNCHANGED <<streamVars, nAlloc, returned, engineFrees, serialised>>

\* The loader calls inputStreamEof or inputStreamClose.
LoaderEofCloseCallback(t) ==
  /\ ~crashed
  /\ pc[t] = "is_load"
  /\ call[t].ncb < MaxLoaderCalls
  /\ call' = [call EXCEPT ![t].ncb = @ + 1]
  /\ UNCHANGED <<streamVars, crashed, pc, held, misuse, nAlloc, returned, engineFrees,
                 serialised>>

\* whisper_init returns; initContextFromInputStream returns the context.
initContextFromInputStreamReturn(t) ==
  /\ ~crashed
  /\ pc[t] = "is_load"
  /\ \E c \in LoadResults :
       /\ call' = [call EXCEPT ![t].ret = c, ![t].ncb = 0]
       /\ ReturnHandle(t, c)
  /\ UNCHANGED <<streamVars, crashed, held, misuse, engineFrees, serialised>>

\* initContextFromAsset when the asset cannot be opened: the whole call.
\* Otherwise the call up to whisper_init_with_params(&loader, ...).
initContextFromAssetEnter(t) ==
  /\ ~crashed
  /\ pc[t] = "idle"
  /\ \E a \in AssetOpenResults :
       LET st1 == RunOps(RunOps(Buffers(t), assetGetOps), assetOpenOps)
           entry == [NoEntry EXCEPT !.fn = "initContextFromAsset", !.opened = (a # 0),
                                    !.logs = {"Loading model from asset"}]
       IN  IF AssetOpenFailed(a)
           THEN /\ SetBuffers(t, RunOps(st1, assetReleaseOps))
                /\ call' = [call EXCEPT ![t] =
                              [entry EXCEPT !.logs = @ \cup {"Failed to open"}, !.ret = 0]]
                /\ pc' = [pc EXCEPT ![t] = "ret"]
           ELSE /\ SetBuffers(t, st1)
                /\ call' = [call EXCEPT ![t] = [entry EXCEPT !.loader = TRUE]]
                /\ pc' = [pc EXCEPT ![t] = "ia_load"]
  /\ UNCHANGED <<streamVars, crashed, nAlloc, returned, engineFrees, serialised>>

\* The loader calls asset_read, asset_is_eof or asset_close.
LoaderAssetCallback(t) ==
  /\ ~crashed
  /\ pc[t] = "ia_load"
  /\ call[t].ncb < MaxLoaderCalls
  /\ call' = [call EXCEPT ![t].ncb = @ + 1]
  /\ UNCHANGED <<streamVars, crashed, pc, held, misuse, nAlloc, returned, engineFrees,
                 serialised>>

\* whisper_init_with_params returns; the path is released and the context returned.
initContextFromAssetReturn(t) ==
  /\ ~crashed
  /\ pc[t] = "ia_load"
  /\ \E c \in LoadResults :
       /\ call' = [call EXCEPT ![t].ret = c]
       /\ ReturnHandle(t, c)
  /\ SetBuffers(t, RunOps(Buffers(t), assetReleaseOps))
  /\ UNCHANGED <<streamVars, crashed, engineFrees, serialised>>

\* initContext, up to the call of whisper_init_from_file_with_params.
initContextEnter(t) ==
  /\ ~crashed
  /\ pc[t] = "idle"
  /\ pc' = [pc EXCEPT ![t] = "ic_load"]
  /\ call' = [call EXCEPT ![t] = [NoEntry EXCEPT !.fn = "initContext", !.loader = TRUE]]
  /\ SetBuffers(t, RunOps(Buffers(t), initContextGetOps))
  /\ UNCHANGED <<streamVars, crashed, nAlloc, returned, engineFrees, serialised>>

\* The engine's file loader returns; the path is released and the context returned.
initContextReturn(t) ==
  /\ ~crashed
  /\ pc[t] = "ic_load"
  /\ \E c \in LoadResults :
       /\ call' = [call EXCEPT ![t].ret = c]
       /\ ReturnHandle(t, c)
  /\ SetBuffers(t, RunOps(RunOps(Buffers(t), initContextLoadOps), initContextReleaseOps))
  /\ UNCHANGED <<streamVars, crashed, engineFrees, serialised>>

\* freeContext: the whole call. Freeing a context that is not valid (freed
\* before, or in use) is undefined in the engine: the call returns or aborts.
freeContext(t) ==
  /\ ~crashed
  /\ pc[t] = "idle"
  /\ \E h \in UsableHandles(t) :
       /\ TotalFrees < MaxFrees
       /\ engineFrees' = [f \in Handles |->
                            IF f \in freeContextFrees(h) THEN engineFrees[f] + 1
                            ELSE engineFrees[f]]
       /\ \/ /\ call' = [u \in Threads |->
                          IF u = t THEN [NoEntry EXCEPT !.fn = "freeContext", !.h = h]
                          ELSE IF \E f \in freeContextFrees(h) : f # 0 /\ InFull(u, f)
                               THEN [call[u] EXCEPT !.freedInFull = TRUE]
                               ELSE call[u]]
             /\ pc' = [pc EXCEPT ![t] = "ret"]
             /\ UNCHANGED <<crashed, held>>
          \/ /\ \E f \in freeContextFrees(h) : f # 0 /\ ~ValidCtx(f)
             /\ Abort(t, [NoEntry EXCEPT !.fn = "freeContext", !.h = h])
  /\ UNCHANGED <<streamVars, misuse, nAlloc, returned, serialised>>

\* fullTranscribe, up to the call of whisper_full.
fullTranscribeEnter(t) ==
  /\ ~crashed
  /\ pc[t] = "idle"
  /\ \E h \in UsableHandles(t), a \in TranscribeArgs, d \in GreedyDefaults :
       call' = [call EXCEPT ![t] =
                  [NoEntry EXCEPT !.fn = "fullTranscribe", !.h = h,
                                  !.ctx = fullTranscribeContext(h),
                                  !.lang = a[1], !.n_threads = a[2], !.translate = a[3],
                                  !.params = FullParams(d, a[1], a[2], a[3]),
                                  !.logs = {"Language", "About to run whisper_full"}]]
  /\ pc' = [pc EXCEPT ![t] = "in_full"]
  /\ SetBuffers(t, RunOps(Buffers(t), fullTranscribeEnterOps))
  /\ UNCHANGED <<streamVars, crashed, nAlloc, returned, engineFrees, serialised>>

\* The inference run of thread t is undefined in the engine: its context is
\* not valid, was freed under it, or another run is inside it.
FullUndefined(t) ==
  \/ ~ValidCtx(call[t].ctx)
  \/ call[t].freedInFull
  \/ \E u \in Threads \ {t} : InFull(u, call[t].ctx)

\* whisper_full returns rc; fullTranscribe logs, releases the buffers and returns.
fullTranscribeReturn(t) ==
  /\ ~crashed
  /\ pc[t] = "in_full"
  /\ \E rc \in FullResults :
       /\ call' = [call EXCEPT ![t] =
                     [NoEntry EXCEPT !.fn = "fullTranscribe", !.h = call[t].h,
                                     !.ctx = call[t].ctx, !.rc = rc,
                                     !.logs = call[t].logs \cup
                                       (IF rc # 0 THEN {"Failed to run the model"} ELSE {}),
                                     !.timings = (rc = 0)]]
       /\ SetBuffers(t, RunOps(RunOps(Buffers(t), whisperFullOps),
                               fullTranscribeReleaseOps(rc)))
  /\ pc' = [pc EXCEPT ![t] = "ret"]
  /\ UNCHANGED <<streamVars, crashed, nAlloc, returned, engineFrees, serialised>>

\* An undefined inference run takes the process down.
whisperFullAbort(t) ==
  /\ ~crashed
  /\ pc[t] = "in_full"
  /\ FullUndefined(t)
  /\ Abort(t, NoEntry)
  /\ UNCHANGED <<streamVars, misuse, nAlloc, returned, engineFrees, serialised>>

\* getTextSegmentCount, getTextSegment, getTextSegmentT0, getTextSegmentT1: the
\* whole call, a read of the context given that leaves nothing behind; on a
\* context that is not valid the read is undefined in the engine, and the call
\* returns or aborts.
accessor(t) ==
  /\ ~crashed
  /\ pc[t] = "idle"
  /\ \E h \in UsableHandles(t) :
       \/ UNCHANGED <<crashed, pc, call, held>>
       \/ /\ ~ValidCtx(h)
          /\ Abort(t, NoEntry)
  /\ UNCHANGED <<streamVars, misuse, nAlloc, returned, engineFrees, serialised>>

\* getSystemInfo, benchMemcpy, benchGgmlMulMat: the whole call; it takes no
\* context and no host buffer, and leaves nothing behind.
passthrough(t) ==
  /\ ~crashed
  /\ pc[t] = "idle"
  /\ UNCHANGED vars

\* The host thread takes the result of its call and is free to call again.
HostResume(t) ==
  /\ ~crashed
  /\ pc[t] = "ret"
  /\ pc' = [pc EXCEPT ![t] = "idle"]
  /\ call' = [call EXCEPT ![t] = NoEntry]
  /\ UNCHANGED <<streamVars, crashed, held, misuse, nAlloc, returned, engineFrees,
                 serialised>>

HostInit ==
  /\ pc = [t \in Threads |-> "idle"]
  /\ call = [t \in Threads |-> NoEntry]
  /\ held = [t \in Threads |-> {}]
  /\ misuse = FALSE
  /\ nAlloc = 0
  /\ returned = {}
  /\ engineFrees = [h \in Handles |-> 0]

\* The library after loading: no context, every thread idle; the host either
\* serialises its calls on each handle or does not.
Init ==
  /\ HostInit
  /\ serialised \in BOOLEAN
  /\ crashed = FALSE
  /\ stream = [data |-> <<>>, pos |-> 0]
  /\ asset = [remaining |-> 0, open |-> FALSE]
  /\ is_offset = 0
  /\ last = NoCall
  /\ nCalls = 0

Next ==
  \E t \in Threads :
    \/ initContextFromInputStreamEnter(t)
    \/ LoaderReadCallback(t)
    \/ LoaderEofCloseCallback(t)
    \/ initContextFromInputStreamReturn(t)
    \/ initContextFromAssetEnter(t)
    \/ LoaderAssetCallback(t)
    \/ initContextFromAssetReturn(t)
    \/ initContextEnter(t)
    \/ initContextReturn(t)
    \/ freeContext(t)
    \/ fullTranscribeEnter(t)
    \/ fullTranscribeReturn(t)
    \/ whisperFullAbort(t)
    \/ accessor(t)
    \/ passthrough(t)
    \/ HostResume(t)

Spec == Init /\ [][Next]_vars

\* The adapter as the engine's loader drives it: a stream (or an asset) of any
\* length, and callbacks in any order.
InitStream ==
  /\ stream \in [data : {StreamOfLen(n) : n \in 0..MaxLen}, pos : {0}]
  /\ asset = [remaining |-> MaxLen, open |-> TRUE]
  /\ is_offset = 0
  /\ last = NoCall
  /\ nCalls = 0
  /\ crashed = FALSE
  /\ HostInit
  /\ serialised = TRUE

NextStream ==
  \/ inputStreamRead
  \/ inputStreamEof
  \/ inputStreamClose
  \/ asset_read
  \/ asset_is_eof
  \/ asset_close
  \/ LoaderContinue

SpecStream == InitStream /\ [][NextStream]_vars

\* ------------------------------------------------ claims on the stream adapter

\* C1: every call of inputStreamRead returns the count of bytes the host
\* stream's read delivered; when the host read delivers fewer bytes than were
\* asked of it (the end-of-stream result -1 included), the callback returns the
\* delivered count and not the count it asked for.
C1_ReturnsDeliveredCount ==
  (last.op = "read" /\ last.returned) =>
    /\ last.n_read >= 0 => last.ret = last.n_read
    /\ last.n_read < last.asked => last.ret # ToSize(last.asked)

\* C2: when the reported available count is >= the requested size,
\* inputStreamRead returns exactly the requested size and the first 'returned'
\* bytes of the output are the next bytes of the stream, in order, each one a
\* byte the stream delivered.
C2_FullReadWhenAvailable ==
  (last.op = "read" /\ last.avail >= last.read_size) =>
    /\ last.returned
    /\ last.ret = last.read_size
    /\ \A i \in 1..last.ret :
         /\ i <= last.n_read
         /\ last.out[i] = stream.data[last.pos0 + i]

\* C3: when the reported available count is < the requested size, for every
\* requested size of the size_t range and every available count of the jint
\* range, the length asked of the host stream and the value returned both equal
\* the available count, are not negative and do not exceed the requested size,
\* and the under-read is logged.
C3_ClampsToBoth ==
  (last.op = "read" /\ last.avail < last.read_size) =>
    /\ last.returned
    /\ last.asked = last.avail
    /\ last.ret = last.avail
    /\ last.ret >= 0
    /\ last.ret <= last.read_size
    /\ last.logged

C5_AssetOpenFailure ==
  \A t \in Threads :
    (call[t].fn = "initContextFromAsset" /\ ~call[t].opened) =>
      /\ pc[t] = "ret"
      /\ call[t].ret = 0
      /\ ~call[t].loader
      /\ call[t].ncb = 0
      /\ "Failed to open" \in call[t].logs
      /\ held[t] = {}
      /\ ~misuse

\* C5's case: an initContextFromAsset call whose asset did not open has returned.
C5_Witness ==
  \E t \in Threads :
    /\ pc[t] = "ret"
    /\ call[t].fn = "initContextFromAsset"
    /\ ~call[t].opened

\* C6: what the host sees of a fullTranscribe call is the same whether the
\* inference run succeeded or failed: a void return, no exception, both host
\* buffers released; the two paths differ in the failure log line and in the
\* printing of the timings only.
C6_SilentFailure ==
  \A t \in Threads :
    (pc[t] = "ret" /\ call[t].fn = "fullTranscribe") =>
      /\ call[t].ret = 0
      /\ ~call[t].exc
      /\ held[t] = {}
      /\ {"Language", "About to run whisper_full"} \subseteq call[t].logs
      /\ call[t].rc # 0 => ("Failed to run the model" \in call[t].logs /\ ~call[t].timings)
      /\ call[t].rc = 0 => ("Failed to run the model" \notin call[t].logs /\ call[t].timings)

\* C6's case: a fullTranscribe call whose inference run failed has returned.
C6_Witness ==
  \E t \in Threads :
    /\ pc[t] = "ret"
    /\ call[t].fn = "fullTranscribe"
    /\ call[t].rc # 0

\* C7: every freeContext call issues exactly one whisper_free, on the handle it
\* was given, whatever the handle; no other step of any entry point issues one;
\* so a host that passes each handle to freeContext once has each context
\* destroyed once.
C7_FreeExactlyOnce ==
  [][/\ \A h \in Handles :
          engineFrees'[h] = engineFrees[h] +
            Cardinality({t \in Threads :
                           /\ pc[t] = "idle"
                           /\ pc'[t] \in {"ret", "aborted"}
                           /\ call'[t].fn = "freeContext"
                           /\ call'[t].h = h})
     /\ serialised => \A h \in 1..MaxCtx : engineFrees'[h] <= 1]_vars

\* C7's case: a serialising host has freed a context, which was destroyed once.
C7_Witness ==
  \E t \in Threads :
    /\ serialised
    /\ pc[t] = "ret"
    /\ call[t].fn = "freeContext"
    /\ call[t].h >= 1
    /\ engineFrees[call[t].h] = 1

\* C8: the parameters handed to whisper_full are the greedy defaults with
\* no-context mode on, single-segment mode off and all printing off, and with
\* the language, thread count and translate flag of this call: they depend on
\* nothing else, whatever calls preceded on the handle.
C8_FreshParams ==
  \A t \in Threads :
    pc[t] = "in_full" =>
      call[t].params =
        [strategy |-> "greedy", translate |-> call[t].translate,
         print_realtime |-> FALSE, print_progress |-> FALSE,
         print_timestamps |-> FALSE, print_special |-> FALSE,
         language |-> call[t].lang, n_threads |-> call[t].n_threads,
         offset_ms |-> 0, no_context |-> TRUE, single_segment |-> FALSE]

\* C8's case: a transcribe call is inside whisper_full on a handle on which an
\* earlier transcribe call has completed.
C8_Witness ==
  \E t \in Threads, u \in Threads :
    /\ t # u
    /\ serialised
    /\ pc[t] = "in_full"
    /\ pc[u] = "ret"
    /\ call[u].fn = "fullTranscribe"
    /\ call[u].h = call[t].h

\* C9: every host buffer a call acquires is released once before the call
\* returns and is not read after its release: no buffer is read, released or
\* acquired out of turn, and a thread that is in no call, or back in the loader
\* between two stream callbacks, holds none.
C9_NoBufferOutlivesCall ==
  /\ ~misuse
  /\ \A t \in Threads : pc[t] \in {"idle", "ret", "is_load"} => held[t] = {}

\* C9's case: a stream read callback has run and returned into the loader while
\* a transcribe call whose inference run failed has returned.
C9_Witness ==
  \E t \in Threads, u \in Threads :
    /\ pc[t] = "is_load"
    /\ call[t].ncb > 0
    /\ pc[u] = "ret"
    /\ call[u].fn = "fullTranscribe"
    /\ call[u].rc # 0

\* Two inference runs are inside the same engine context.
Overlap ==
  \E t \in Threads, u \in Threads :
    t # u /\ pc[t] = "in_full" /\ pc[u] = "in_full" /\ call[t].ctx = call[u].ctx

\* A context was freed while an inference run was inside it.
FreedInFull == \E t \in Threads : pc[t] = "in_full" /\ call[t].freedInFull

\* C10: the layer has no lock on a context, so the two races (two inference
\* runs inside one context, a free of a context with a run inside it) are
\* reachable; when the host serialises its calls on a handle and frees the
\* handle last, neither is.
C10_NoRaceWhenSerialised == serialised => (~Overlap /\ ~FreedInFull)

\* C10's case: without serialisation, two inference runs are inside one
\* context, which was freed under one of them.
C10_Witness == ~serialised /\ Overlap /\ FreedInFull

====
